---- MODULE Spec2Model ----
(***************************************************************************)
(* Document-to-record ingestion pipeline of fusefy-agentic-ai-initial.     *)
(*                                                                         *)
(* Two entry shapes are modelled side by side:                             *)
(*   "api" : lambda_function_for_api.py, lambda_handler (/upload-document) *)
(*           -> process_document_upload (raw file bytes)                   *)
(*   "s3"  : lambda_function.py, lambda_handler -> process_usecase_request *)
(*           (pre-uploaded object location + caller-supplied hash)         *)
(* Both write into the same tenant table                                   *)
(*   <stage>-<app>-usecaseAssessments-<cloud_id>.                          *)
(*                                                                         *)
(* External collaborators (LLM, blob store, record store) are modelled by  *)
(* their outcomes: a call returns a value or raises.                       *)
(***************************************************************************)
EXTENDS Integers, Sequences, FiniteSets, TLC

\* ------------------------------------------------------------------ bounds

\* number of ingestion requests (each is one handler invocation)
NumProcs == 2

\* number of items the record store evaluates per scan call (one "page")
PageSize == 1

Procs == 1..NumProcs

\* tenants (cloud_id values); each has its own use-case table
Tenants == {"t1", "t2"}

\* documents, identified by their normalized text; 0 is the document whose
\* normalized text is empty
Docs == {0, 1, 2}

\* SHA-256 of the normalized text, abstracted as an injective tag on it
Sha256(d) == <<"sha256", d>>

Hashes == {Sha256(d) : d \in Docs}

\* the hash a caller of the s3 entry sends along: any non-empty string
CallerHashes == Hashes

\* ------------------------------------------------------------ raw texts

\* A raw text is a sequence of characters: letters, the space and the line
\* feed ("LF").
Whitespace == {" ", "LF"}

\* str.split(): the maximal runs of characters that are not whitespace
RECURSIVE Split(_)
Split(text) ==
    IF Len(text) = 0 THEN <<>>
    ELSE LET init == SubSeq(text, 1, Len(text) - 1)
             last == text[Len(text)]
             words == Split(init)
         IN  IF last \in Whitespace THEN words
             ELSE IF Len(init) > 0 /\ init[Len(init)] \notin Whitespace
               THEN [words EXCEPT ![Len(words)] = Append(@, last)]
             ELSE Append(words, <<last>>)

\* ' '.join(words)
RECURSIVE Join(_)
Join(words) ==
    IF Len(words) = 0 THEN <<>>
    ELSE IF Len(words) = 1 THEN words[1]
    ELSE Join(SubSeq(words, 1, Len(words) - 1)) \o <<" ">> \o words[Len(words)]

\* as if the text were only stripped at its ends
Normalize_StripOnly(text) ==
    LET inside == {i \in 1..Len(text) : text[i] \notin Whitespace}
    IN  IF inside = {} THEN <<>>
        ELSE SubSeq(text, CHOOSE i \in inside : \A j \in inside : i <= j,
                          CHOOSE i \in inside : \A j \in inside : i >= j)

\* normalized_text = ' '.join(text.split()) if text else ""
Normalize(text) == IF Len(text) = 0 THEN <<>> ELSE Join(Split(text))

\* ------------------------------------------------------------- record ids

\* An id is a string; it is modelled by whether it starts with the prefix
\* "AI-UC-AST-" and by the characters after it. Characters are 0..9 for the
\* decimal digits and NonDigit for any other character.
NonDigit == 9 + 1

Chars == 0..NonDigit

IsDigitChar(c) == c \in 0..9

\* str.isdigit(): non-empty and all characters are digits
IsDigit(s) == Len(s) > 0 /\ \A i \in 1..Len(s) : IsDigitChar(s[i])

\* int(num_part) for an all-digit string
RECURSIVE ToInt(_)
ToInt(s) == IF Len(s) = 0 THEN 0
            ELSE 10 * ToInt(SubSeq(s, 1, Len(s) - 1)) + s[Len(s)]

\* str(n) for n >= 0
RECURSIVE ToDigits(_)
ToDigits(n) == IF n < 10 THEN <<n>> ELSE Append(ToDigits(n \div 10), n % 10)

\* f"{n:03d}"
RECURSIVE ZeroPad(_, _)
ZeroPad(s, width) == IF Len(s) >= width THEN s ELSE ZeroPad(<<0>> \o s, width)

Format03d(n) == ZeroPad(ToDigits(n), 3)

PrefixId(suffix) == [pfx |-> TRUE, suf |-> suffix]

\* an id that does not start with the prefix
OtherId(s) == [pfx |-> FALSE, suf |-> s]

\* ------------------------------------------------------------------- text

\* A text is modelled by the set of phrases that occur in it, drawn from a
\* vocabulary. x in text (Python substring test) holds when x is a phrase of
\* the text or a proper substring of one; the proper-substring pairs of the
\* vocabulary are tabulated.
Vocabulary == {"predict", "prediction", "regression", "customer churn",
               "chatbot", "workflow", "workflow automation", "agent",
               "multi-agent", "orchestration", "storage", "next.js", "adk",
               "mcp", "Predict", "MCP"}

ProperSubstrings == {<<"predict", "prediction">>,
                     <<"workflow", "workflow automation">>,
                     <<"agent", "multi-agent">>,
                     <<"rag", "storage">>,
                     <<"Next.js + ADK", "Next.js + ADK + MCP">>,
                     <<"Agentic AI", "Agentic AI Workflow Agents">>,
                     <<"AI Workflow Agents", "Agentic AI Workflow Agents">>,
                     <<"aws", "laws">>,
                     <<"azure", "microsoft azure">>,
                     <<"google cloud", "google cloud platform">>}

\* needle in text
In(needle, text) ==
    \E ph \in text : ph = needle \/ <<needle, ph>> \in ProperSubstrings

\* str.lower() on the phrases of the vocabulary
LowerPhrase(ph) == CASE ph = "Predict" -> "predict"
                     [] ph = "MCP" -> "mcp"
                     [] ph = "AWS" -> "aws"
                     [] ph = "Azure" -> "azure"
                     [] ph = "GCP" -> "gcp"
                     [] ph = "Google Cloud" -> "google cloud"
                     [] ph = "Google Cloud Platform" -> "google cloud platform"
                     [] ph = "Amazon Web Services" -> "amazon web services"
                     [] ph = "Microsoft Azure" -> "microsoft azure"
                     [] OTHER -> ph

Lower(text) == {LowerPhrase(ph) : ph \in text}

\* ------------------------------------------------------------- LLM Gateway

\* call_llm: raises ("LLM service error"), or returns the message content,
\* which is a text or None (content: null in the API response).
LlmRaise == [kind |-> "raise", text |-> {}]
LlmNone == [kind |-> "none", text |-> {}]
LlmText(t) == [kind |-> "text", text |-> t]

\* ------------------------------------------------------------- Classifier

ml_keywords == {"predict", "prediction", "classify", "classification",
    "cluster", "regression", "forecast", "anomaly detection",
    "pattern recognition", "supervised learning", "unsupervised learning",
    "recommendation", "feature engineering", "model training", "algorithm",
    "neural network", "deep learning", "random forest", "svm",
    "decision tree", "ensemble", "xgboost", "logistic regression",
    "clustering", "optimization", "data mining"}

workflow_keywords == {"chatbot", "rag", "retrieval augmented generation",
    "summarization", "summarize", "dialogue", "conversation", "workflow",
    "approval process", "single shot", "few shot", "content creation",
    "form processing", "automation step"}

agentic_keywords == {"agent", "autonomous", "multi-agent", "collaboration",
    "orchestration", "decision-making", "reasoning", "goal-oriented",
    "workflow automation", "adaptive planning", "self-improving", "tool use",
    "api orchestration", "planner", "mcp", "model context protocol"}

\* sum(1 for keyword in keywords if keyword in text_lower)
Score(keywords, text_lower) ==
    Cardinality({kw \in keywords : In(kw, text_lower)})

\* as if the comparisons were >=: a tie for the highest score goes to the
\* first category tested
determine_ai_category_based_on_data_fallback_TieToFirst(document_text) ==
    LET text_lower == Lower(document_text)
        ml_score == Score(ml_keywords, text_lower)
        workflow_score == Score(workflow_keywords, text_lower)
        agentic_score == Score(agentic_keywords, text_lower)
    IN  IF ml_score >= workflow_score /\ ml_score >= agentic_score
          THEN "Machine Learning"
        ELSE IF workflow_score >= agentic_score THEN "AI Workflow Agents"
        ELSE "Agentic AI"

determine_ai_category_based_on_data_fallback(document_text) ==
    LET text_lower == Lower(document_text)
        ml_score == Score(ml_keywords, text_lower)
        workflow_score == Score(workflow_keywords, text_lower)
        agentic_score == Score(agentic_keywords, text_lower)
    IN  IF ml_score > workflow_score /\ ml_score > agentic_score
          THEN "Machine Learning"
        ELSE IF workflow_score > ml_score /\ workflow_score > agentic_score
          THEN "AI Workflow Agents"
        ELSE IF agentic_score > ml_score /\ agentic_score > workflow_score
          THEN "Agentic AI"
        ELSE "AI Workflow Agents"

\* as if "Agentic AI" were looked for before "Machine Learning"
ParseCategory_AgenticFirst(response) ==
    IF In("Agentic AI", response) THEN "Agentic AI"
    ELSE IF In("Machine Learning", response) THEN "Machine Learning"
    ELSE "AI Workflow Agents"

\* the try branch: category and approach parsed from the response text
ParseCategory(response) ==
    IF In("Machine Learning", response) THEN "Machine Learning"
    ELSE IF In("Agentic AI", response) THEN "Agentic AI"
    ELSE IF In("AI Workflow Agents", response) THEN "AI Workflow Agents"
    ELSE "AI Workflow Agents"

ParseApproach(response) ==
    IF In("Next.js + ADK + MCP", response) THEN "MCP-Oriented Orchestration"
    ELSE IF In("Next.js + ADK", response) THEN "Next.js with ADK"
    ELSE IF In("Custom AI Stack", response) THEN "Custom AI Stack"
    ELSE "Custom AI Stack"

\* the except branch: keyword-based approach
FallbackApproach(document_text) ==
    LET text_lower == Lower(document_text)
    IN  IF In("mcp", text_lower) \/ In("multi-agent", text_lower)
           \/ In("orchestration", text_lower)
          THEN "MCP-Oriented Orchestration"
        ELSE IF In("next.js", text_lower) /\ In("adk", text_lower)
          THEN "Next.js with ADK"
        ELSE "Custom AI Stack"

\* The exception raised inside the try block, if any: call_llm raises
\* Exception("LLM service error"), and `literal in None` raises TypeError.
ClassifierTryRaises(llm) ==
    IF llm.kind = "raise" THEN "Exception"
    ELSE IF llm.kind = "none" THEN "TypeError"
    ELSE "no"

\* as if the except branch re-raised instead of applying the keyword fallback
ClassifierExcept_Reraise(exc) == FALSE

\* as if the handler were `except requests.RequestException`: the TypeError of
\* a None content is not caught
ClassifierExcept_NarrowClass(exc) == exc = "Exception"

\* `except Exception as e:` catches every exception class
ClassifierExcept(exc) == exc \in {"Exception", "TypeError"}

\* The result of the classifier for a document text and the outcome of its
\* LLM call.
determine_ai_category_and_approach_with_llm(document_text, llm) ==
    LET exc == ClassifierTryRaises(llm)
    IN  IF exc = "no"
          THEN [raised |-> FALSE,
                category |-> ParseCategory(llm.text),
                approach |-> ParseApproach(llm.text),
                raw_response |-> "llm"]
        ELSE IF ClassifierExcept(exc)
          THEN [raised |-> FALSE,
                category |-> determine_ai_category_based_on_data_fallback(document_text),
                approach |-> FallbackApproach(document_text),
                raw_response |-> "Fallback logic applied"]
        ELSE [raised |-> TRUE, category |-> "", approach |-> "",
              raw_response |-> ""]

Categories == {"Machine Learning", "AI Workflow Agents", "Agentic AI"}

\* ---------------------------------------------------------------- generator

\* cloud_providers, in the order the generator tries them
cloud_providers == <<"AWS", "Azure", "GCP", "Google Cloud",
                     "Google Cloud Platform", "Amazon Web Services",
                     "Microsoft Azure">>

\* as if the provider that was found were used as it is written in the list
NormalizeProvider_AsFound(found_provider) == found_provider

\* the alias normalisation of the provider that was found
NormalizeProvider(found_provider) ==
    IF found_provider \in {"Google Cloud", "Google Cloud Platform"} THEN "GCP"
    ELSE IF found_provider = "Amazon Web Services" THEN "AWS"
    ELSE IF found_provider = "Microsoft Azure" THEN "Azure"
    ELSE found_provider

\* the first provider of the list whose lower-cased name occurs in the
\* lower-cased text, normalised; the caller's hint when there is none
final_cloud_provider(document_text, cloud_provider) ==
    LET hits == {i \in 1..Len(cloud_providers) :
                    In(LowerPhrase(cloud_providers[i]), Lower(document_text))}
    IN  IF hits = {} THEN cloud_provider
        ELSE NormalizeProvider(
                 cloud_providers[CHOOSE i \in hits : \A j \in hits : i <= j])

\* A value of the key "metrics" of a parsed response: absent, something that
\* is not a list, or a list. An element of the list is an object (a dict),
\* with or without a threshold, or something that is not an object.
Metric(name, threshold) == [obj |-> TRUE, name |-> name, threshold |-> threshold]

NotAnObject == [obj |-> FALSE, name |-> "", threshold |-> {}]

MetricList(items) == [type |-> "list", items |-> items]

NoMetrics == [type |-> "absent", items |-> <<>>]

NotAList == [type |-> "string", items |-> <<>>]

\* the default metrics of enhance_usecase_data for a category, in the upload
\* module (api) and in the object-location module (s3)
DefaultMetrics(entry, ai_category) ==
    IF ai_category = "AI Workflow Agents"
      THEN <<Metric("Response Relevance", {85}), Metric("Workflow Accuracy", {90}),
             Metric("User Satisfaction", {90}), Metric("Response Time", {5})>>
    ELSE IF ai_category = "Machine Learning"
      THEN <<Metric("Accuracy", {90}), Metric("Precision", {85}),
             Metric("Recall", {85}), Metric("F1-Score", {85})>>
           \o (IF entry = "s3" THEN <<Metric("ROC-AUC", {90})>> ELSE <<>>)
    ELSE IF ai_category = "Agentic AI"
      THEN <<Metric("Task Completion Rate", {90}), Metric("Decision Accuracy", {85}),
             Metric("System Reliability", {95}),
             Metric("Collaboration Efficiency", {85})>>
           \o (IF entry = "s3" THEN <<Metric("Adaptability", {80})>> ELSE <<>>)
    ELSE <<Metric("Generic Success Rate", {80})>>

\* the loop of the object-location module over a non-empty list: an object is
\* kept, with threshold 80 when it has none; anything else is dropped
KeepObjects(raw_metrics) ==
    LET objects == SelectSeq(raw_metrics, LAMBDA m : m.obj)
    IN  [i \in 1..Len(objects) |->
            IF objects[i].threshold = {}
              THEN [objects[i] EXCEPT !.threshold = {80}]
              ELSE objects[i]]

\* the "Handle metrics" block of enhance_usecase_data
EnhanceMetrics(entry, raw_metrics, ai_category) ==
    IF raw_metrics.type = "list" /\ Len(raw_metrics.items) > 0
      THEN (IF entry = "s3" THEN MetricList(KeepObjects(raw_metrics.items))
            ELSE raw_metrics)
      ELSE MetricList(DefaultMetrics(entry, ai_category))

\* The value of a key of the parsed response that is to hold a string: the
\* key is absent, or its value is a string (a sequence of pieces), a list of
\* items, or something else (a number, null, an object), given by its str().
Absent == [type |-> "absent", value |-> <<>>]

StrValue(pieces) == [type |-> "str", value |-> pieces]

ListValue(items) == [type |-> "list", value |-> items]

OtherValue(repr) == [type |-> "other", value |-> <<repr>>]

string_fields == {"platform", "businessUsage", "modelDescription"}

NoStrings == [field \in string_fields |-> Absent]

\* ", ".join(str(item) for item in val)
RECURSIVE JoinComma(_)
JoinComma(items) ==
    IF Len(items) = 0 THEN <<>>
    ELSE IF Len(items) = 1 THEN <<items[1]>>
    ELSE JoinComma(SubSeq(items, 1, Len(items) - 1)) \o <<", ", items[Len(items)]>>

\* one round of the loop over string_fields: val is usecase_data.get(field, ""),
\* and the key is assigned only for a list or another non-string value
EnsureString(val) ==
    IF val.type = "list" THEN StrValue(JoinComma(val.value))
    ELSE IF val.type = "other" THEN StrValue(val.value)
    ELSE val

\* as if the literal were only a default: usecase_data.setdefault("status", ...)
SetStatus_KeepModel(usecase_data) ==
    IF usecase_data.status = {}
      THEN [usecase_data EXCEPT !.status = {"Not yet started"}]
      ELSE usecase_data

\* usecase_data["status"] = "Not yet started"
SetStatus(usecase_data) == [usecase_data EXCEPT !.status = {"Not yet started"}]

\* enhance_usecase_data on a dict
enhance_usecase_data(entry, usecase_data, ai_category) ==
    SetStatus([usecase_data EXCEPT
                  !.usecaseCategory = {ai_category},
                  !.metrics = EnhanceMetrics(entry, usecase_data.metrics,
                                             ai_category),
                  !.strings = [field \in string_fields |->
                                   EnsureString(usecase_data.strings[field])]])

\* {"error": str(e)}
GenerationError == [kind |-> "error", status |-> {}, usecaseCategory |-> {},
                    cloudProvider |-> {}, metrics |-> NoMetrics,
                    strings |-> NoStrings]

\* generate_usecase_with_llm_focused from the parsed response on: the item
\* assignments raise on a parsed value that is not a dict
generate_usecase_with_llm_focused(entry, document_text, ai_category, cloud_provider, parsed) ==
    IF parsed.kind # "dict" THEN GenerationError
    ELSE enhance_usecase_data(entry,
             [parsed EXCEPT
                 !.usecaseCategory = {ai_category},
                 !.cloudProvider = {final_cloud_provider(document_text,
                                                         cloud_provider)}],
             ai_category)

\* the keys of the generator output that the orchestrator copies into the
\* item: **usecase_data comes last in the dict display, and none of these
\* keys is filtered out or set by the orchestrator itself
ItemFields(usecase_data) ==
    [status |-> usecase_data.status,
     usecaseCategory |-> usecase_data.usecaseCategory,
     cloudProvider |-> usecase_data.cloudProvider,
     metrics |-> usecase_data.metrics,
     strings |-> usecase_data.strings]

\* ----------------------------------------------------- parsing a model text

\* A model text is a sequence of pieces: the braces of an object, a comma
\* between members, a member "k": "v" ("p"), a member whose string value holds
\* an escaped quote or an escaped n ("e"), a member whose string value holds
\* the two characters ,} ("c"), the same member with the comma taken out
\* ("r"), and anything that is not JSON ("x": prose, a fence, a cut string).
Members == {"p", "e", "c", "r"}

ParseFailed == [ok |-> FALSE, value |-> <<>>]

\* json.loads on an object: the members in order, or JSONDecodeError
JsonLoads(text) ==
    LET n == Len(text)
        inner == SubSeq(text, 2, n - 1)
        m == Len(inner)
    IN  IF n < 2 \/ text[1] # "{" \/ text[n] # "}" THEN ParseFailed
        ELSE IF m = 0 THEN [ok |-> TRUE, value |-> <<>>]
        ELSE IF /\ m % 2 = 1
                /\ \A i \in 1..m : IF i % 2 = 1 THEN inner[i] \in Members
                                   ELSE inner[i] = ","
          THEN [ok |-> TRUE,
                value |-> [i \in 1..((m + 1) \div 2) |-> inner[2 * i - 1]]]
        ELSE ParseFailed

\* response.find('{'): 0 when there is none
JsonStart(text) ==
    LET at == {i \in 1..Len(text) : text[i] = "{"}
    IN  IF at = {} THEN 0 ELSE CHOOSE i \in at : \A j \in at : i <= j

\* response.rfind('}'): the last closing brace, also one inside a string
JsonEnd(text) ==
    LET at == {i \in 1..Len(text) : text[i] \in {"}", "c", "r"}}
    IN  IF at = {} THEN 0 ELSE CHOOSE i \in at : \A j \in at : i >= j

\* json_start != -1 and json_end > json_start
HasBraces(text) == JsonStart(text) # 0 /\ JsonEnd(text) > JsonStart(text)

\* response[json_start:json_end]: a last brace inside a string cuts the string
JsonText(text) ==
    LET sub == SubSeq(text, JsonStart(text), JsonEnd(text))
    IN  [i \in 1..Len(sub) |->
            IF i = Len(sub) /\ sub[i] \in {"c", "r"} THEN "x" ELSE sub[i]]

\* the places of a sequence that a predicate keeps
RECURSIVE Keep(_, _)
Keep(text, drop) ==
    IF Len(text) = 0 THEN <<>>
    ELSE LET rest == Keep(SubSeq(text, 1, Len(text) - 1), drop)
         IN  IF Len(text) \in drop THEN rest
             ELSE Append(rest, text[Len(text)])

\* re.sub(r',(\s*[}\]])', r'\1', json_text): every comma before a closing
\* brace goes, inside a string too
RemoveTrailingCommas(json_text) ==
    LET commas == {i \in 1..(Len(json_text) - 1) :
                      json_text[i] = "," /\ json_text[i + 1] = "}"}
        kept == Keep(json_text, commas)
    IN  [i \in 1..Len(kept) |-> IF kept[i] = "c" THEN "r" ELSE kept[i]]

\* json_text.replace('\\"', '"').replace('\\n', '\n'): an escaped quote ends
\* its string early, an escaped n becomes a line break inside the string
Unescape(json_text) ==
    [i \in 1..Len(json_text) |-> IF json_text[i] = "e" THEN "x" ELSE json_text[i]]

\* the "Parse JSON response" block of generate_usecase_with_llm_focused, in
\* the upload module (api) and in the object-location module (s3)
parse_response(entry, response) ==
    IF JsonLoads(response).ok THEN JsonLoads(response)
    ELSE IF ~HasBraces(response) THEN ParseFailed
    ELSE IF entry = "api"
      THEN JsonLoads(RemoveTrailingCommas(JsonText(response)))
    ELSE IF JsonLoads(JsonText(response)).ok
      THEN JsonLoads(JsonText(response))
    ELSE JsonLoads(RemoveTrailingCommas(Unescape(JsonText(response))))

\* ------------------------------------------------------------ record store

\* keyword content of each document's normalized text
DocText(d) == CASE d = 0 -> {}
                [] d = 1 -> {"predict", "customer churn", "regression"}
                [] OTHER -> {"multi-agent", "orchestration", "workflow"}

\* as if the check of the extracted text were missing
EmptyDocument_Unchecked(document_text) == FALSE

\* if not document_text.strip() (upload entry), if not document_text (object
\* entry, whose extractor has already normalized the text)
EmptyDocument(document_text) == document_text = {}

Max(a, b) == IF a >= b THEN a ELSE b
Min(a, b) == IF a <= b THEN a ELSE b

\* table.put_item(Item=item): the item replaces the one with the same key,
\* if any; no condition expression is given
put_item(table, item) ==
    IF \E i \in 1..Len(table) : table[i].id = item.id
      THEN [i \in 1..Len(table) |->
               IF table[i].id = item.id THEN item ELSE table[i]]
      ELSE Append(table, item)

\* as if the answer never carried a LastEvaluatedKey: the scan stops after
\* its first page
ScanCall_FirstPageOnly(table, start) ==
    [Evaluated |-> SubSeq(table, start + 1, Min(start + PageSize, Len(table))),
     HasLastEvaluatedKey |-> FALSE,
     LastEvaluatedKey |-> Min(start + PageSize, Len(table))]

\* One table.scan call: the store evaluates at most PageSize items after
\* position `start`, and answers with LastEvaluatedKey when items remain.
\* A filter expression is applied to the evaluated items only.
ScanCall(table, start) ==
    LET last == Min(start + PageSize, Len(table))
    IN  [Evaluated |-> SubSeq(table, start + 1, last),
         HasLastEvaluatedKey |-> last < Len(table),
         LastEvaluatedKey |-> last]

\* FilterExpression=Attr('documentHash').eq(document_hash)
HashMatches(page, h) == SelectSeq(page, LAMBDA it : it.documentHash = h)

\* FilterExpression="begins_with(id, :prefix)", ProjectionExpression="id"
PrefixIds(page) == {page[i].id : i \in {j \in 1..Len(page) : page[j].id.pfx}}

\* the loop over items of generate_sequential_id: highest all-digit suffix
MaxNum(ids) ==
    LET nums == {ToInt(k.suf) : k \in {x \in ids : x.pfx /\ IsDigit(x.suf)}}
    IN  IF nums = {} THEN 0 ELSE CHOOSE m \in nums : \A n \in nums : n <= m

\* new_id = f"{prefix}{new_num:03d}"
SequentialId(ids) == PrefixId(Format03d(MaxNum(ids) + 1))

\* int(datetime.now().timestamp()) as the clock may read
Timestamps == {170, 171}

\* fallback_id = f"{prefix}{timestamp}"
\* the fallback as if it were built without the prefix
FallbackId_NoPrefix(ts) == [pfx |-> FALSE, suf |-> ToDigits(ts)]

FallbackId(ts) == PrefixId(ToDigits(ts))

\* Keys of the parsed and enhanced generator output that are also keys of the
\* item the orchestrator builds: each is absent ({}) or present with a value.
NoOverride == [id |-> {}, documentHash |-> {}]

GeneratorOutputs == {NoOverride,
                     [id |-> {OtherId(<<NonDigit>>)}, documentHash |-> {}]}

Pick(s, default) == IF s = {} THEN default ELSE CHOOSE x \in s : TRUE

\* usecase_item = {"id": usecase_id, ..., "documentHash": document_hash, ...,
\*                 **{k: v for k, v in usecase_data.items() if k not in [...]}}
\* the spread comes last, so a key of usecase_data replaces the one before it
usecase_item(id, category, hash, data, by) ==
    [id |-> Pick(data.id, id),
     aiCategory |-> category,
     documentHash |-> Pick(data.documentHash, hash),
     by |-> by]

\* ------------------------------------------------------------ orchestrator

VARIABLES
    store,          \* [tenant -> sequence of items], the use-case tables
    pc,             \* [proc -> "idle" | a step | "done"]
    request,        \* [proc -> entry, cloud_id, doc, hash_value]
    document_hash,  \* local of the orchestrator
    ai_category,    \* local of the orchestrator
    usecase_data,   \* local of the orchestrator
    usecase_id,     \* local of the orchestrator: {} until allocated
    scan,           \* locals of generate_sequential_id: items, cursor
    fetch,          \* local of fetch_all_dynamodb_records: the scan position
    result,         \* what the orchestrator returned
    status,         \* HTTP statusCode the handler returned
    escaped,        \* how far an exception propagated: "no", "orchestrator", "handler"
    trace,          \* history: the steps each ingestion has started
    finished,       \* history: ingestions in the order they returned
    seen,           \* history: ids in the table when the id scan began
    calls,          \* history: the external calls of each ingestion, in order
    store_failed,   \* history: a call to the record store has raised
    classifier,     \* one call of the classifier on its own: input and result
    generator,      \* one call of the generator on its own: input and result
    parser,         \* one parse of a model text on its own: input and result
    extractor       \* one text extraction on its own: input and result

locals == <<document_hash, ai_category, usecase_data, usecase_id, scan, seen>>
outputs == <<result, status, escaped, finished>>
pipeline == <<store, pc, request, document_hash, ai_category, usecase_data,
              usecase_id, scan, fetch, result, status, escaped, trace, finished, seen,
              calls, store_failed>>
units == <<classifier, generator, parser, extractor>>
vars == <<pipeline, units>>

\* as if the duplicate check were made after generation, where the design
\* document places it
ApiSteps_DedupeAfterGenerate ==
    <<"Extract", "Fetch", "Summarize", "Classify", "Design", "Generate",
      "Dedupe", "Allocate", "Persist">>

\* the order of the steps in process_document_upload
ApiSteps == <<"Extract", "Dedupe", "Fetch", "Summarize", "Classify", "Design",
              "Generate", "Allocate", "Persist">>

\* the order of the steps in process_usecase_request
S3Steps == <<"Extract", "Design", "Fetch", "Summarize", "Classify",
             "Generate", "Allocate", "Persist">>

StepsOf(entry) == IF entry = "api" THEN ApiSteps ELSE S3Steps

IndexOf(seq, x) == CHOOSE i \in 1..Len(seq) : seq[i] = x

StepAfter(entry, step) == StepsOf(entry)[IndexOf(StepsOf(entry), step) + 1]

NoHash == <<"none", 0>>
NoRequest == [entry |-> "", cloud_id |-> "", doc |-> 0, hash_value |-> NoHash]
NoScan == [items |-> {}, cursor |-> 0, started |-> FALSE, fallback |-> FALSE]
NoResult == [kind |-> "none", usecase_id |-> {}, existing_id |-> {},
             ai_category |-> ""]

Failure(kind) == [kind |-> kind, usecase_id |-> {}, existing_id |-> {},
                  ai_category |-> ""]

NoClassification == [raised |-> FALSE, category |-> "", approach |-> "",
                     raw_response |-> ""]

NoCall == [document_text |-> {}, llm |-> LlmRaise, returned |-> FALSE,
           result |-> NoClassification]

NoParsed == [kind |-> "none", status |-> {}, usecaseCategory |-> {},
             cloudProvider |-> {}, metrics |-> NoMetrics, strings |-> NoStrings]

NoParse == [entry |-> "", text |-> <<>>, returned |-> FALSE,
            result |-> [ok |-> FALSE, value |-> <<>>]]

NoExtraction == [entry |-> "", raw |-> <<>>, returned |-> FALSE,
                 text |-> <<>>, document_hash |-> <<>>]

NoGeneration == [entry |-> "", document_text |-> {}, ai_category |-> "",
                 cloud_provider |-> "", parsed |-> NoParsed,
                 returned |-> FALSE, usecase_data |-> NoParsed]

\* the state before any request, over given use-case tables
InitPipelineOver(tables) ==
    /\ store = tables
    /\ pc = [p \in Procs |-> "idle"]
    /\ request = [p \in Procs |-> NoRequest]
    /\ document_hash = [p \in Procs |-> NoHash]
    /\ ai_category = [p \in Procs |-> ""]
    /\ usecase_data = [p \in Procs |-> NoOverride]
    /\ usecase_id = [p \in Procs |-> {}]
    /\ scan = [p \in Procs |-> NoScan]
    /\ fetch = [p \in Procs |-> 0]
    /\ result = [p \in Procs |-> NoResult]
    /\ status = [p \in Procs |-> 0]
    /\ escaped = [p \in Procs |-> "no"]
    /\ trace = [p \in Procs |-> <<>>]
    /\ finished = <<>>
    /\ seen = [p \in Procs |-> {}]
    /\ calls = [p \in Procs |-> <<>>]
    /\ store_failed = FALSE

\* every use-case table is empty
InitPipeline == InitPipelineOver([t \in Tenants |-> <<>>])

\* no unit call is under way
NoUnits(running) ==
    /\ "classifier" \in running \/ classifier = NoCall
    /\ "generator" \in running \/ generator = NoGeneration
    /\ "parser" \in running \/ parser = NoParse
    /\ "extractor" \in running \/ extractor = NoExtraction

Init == InitPipeline /\ NoUnits({})

\* as if the summary call were made before the try block
OrchestratorCatches_SummarizeOutside(entry, step) == step # "Summarize"

\* the try/except Exception around the whole body of process_document_upload
\* and of process_usecase_request: every step is inside it
OrchestratorCatches(entry, step) == step \in {"Extract", "Dedupe", "Fetch",
    "Summarize", "Classify", "Design", "Generate", "Allocate", "Persist"}

\* the try/except Exception of lambda_handler around the request parsing and
\* the call of the orchestrator
HandlerCatches(entry) == entry \in {"api", "s3"}

\* statusCode of the handler for a result the orchestrator returned
StatusCode(entry, res) ==
    IF entry = "api"
      THEN (IF res.kind = "success" THEN 200 ELSE 400)
      ELSE 200

ClearLocals(p) ==
    /\ document_hash' = [document_hash EXCEPT ![p] = NoHash]
    /\ ai_category' = [ai_category EXCEPT ![p] = ""]
    /\ usecase_data' = [usecase_data EXCEPT ![p] = NoOverride]
    /\ usecase_id' = [usecase_id EXCEPT ![p] = {}]
    /\ scan' = [scan EXCEPT ![p] = NoScan]
    /\ seen' = [seen EXCEPT ![p] = {}]

\* the handler returns: the invocation is over
End(p, res, code, esc) ==
    /\ pc' = [pc EXCEPT ![p] = "done"]
    /\ result' = [result EXCEPT ![p] = res]
    /\ status' = [status EXCEPT ![p] = code]
    /\ escaped' = [escaped EXCEPT ![p] = esc]
    /\ finished' = Append(finished, p)
    /\ ClearLocals(p)

\* the orchestrator returns res to the handler
Return(p, res) == End(p, res, StatusCode(request[p].entry, res), "no")

\* as if a step that raised were run again
Raise_Retry(p, step) == UNCHANGED <<pc, outputs, locals>>

\* `step` raises an exception inside the orchestrator
Raise(p, step) ==
    IF OrchestratorCatches(request[p].entry, step)
      THEN Return(p, Failure("exception"))
    ELSE IF HandlerCatches(request[p].entry)
      THEN End(p, NoResult, 500, "orchestrator")
    ELSE End(p, NoResult, 0, "handler")

\* `step` is over and the next one is due
Go(p, step) ==
    /\ pc' = [pc EXCEPT ![p] = StepAfter(request[p].entry, step)]
    /\ UNCHANGED outputs

Did(p, step) == trace' = [trace EXCEPT ![p] = Append(@, step)]

\* as if the table name did not end in the tenant id
TableOf_Shared(p) == "t1"

\* usecase_table_name = f"{stage_name}-{app_name}-usecaseAssessments-{tenant_id}"
TableOf(p) == request[p].cloud_id

\* an external call: which step issued it, to what ("llm", "scan", "put"),
\* from which scan position, and whether it returned an answer
Call(step, to, start, ok) == [step |-> step, to |-> to, start |-> start, ok |-> ok]

Called(p, call) == calls' = [calls EXCEPT ![p] = Append(@, call)]

\* call_llm gave a text: it did not raise and the content is not None
Usable(llm) == llm.kind = "text"

\* lambda_handler up to the call of the orchestrator: the body is parsed and
\* the required fields are checked
Receive(p) ==
    /\ pc[p] = "idle"
    /\ \E entry \in {"api", "s3"}, body \in {"ok", "malformed", "missing"} :
         \/ /\ body = "malformed"
            /\ request' = [request EXCEPT ![p].entry = entry]
            /\ IF HandlerCatches(entry)
                 THEN End(p, Failure("bad_request"), 500, "no")
                 ELSE End(p, NoResult, 0, "handler")
         \/ /\ body = "missing"
            /\ request' = [request EXCEPT ![p].entry = entry]
            /\ End(p, Failure("missing_fields"), 400, "no")
         \/ /\ body = "ok"
            /\ \E c \in Tenants, d \in Docs, h \in CallerHashes :
                 /\ entry = "api" => h = Sha256(d)
                 /\ entry = "s3" => h \in {Sha256(d), Sha256(1)} \ {Sha256(0)}
                 /\ request' = [request EXCEPT ![p] =
                        [entry |-> entry, cloud_id |-> c, doc |-> d,
                         hash_value |-> IF entry = "s3" THEN h ELSE NoHash]]
            /\ pc' = [pc EXCEPT ![p] = "Extract"]
            /\ UNCHANGED <<outputs, locals>>
    /\ UNCHANGED <<store, trace, calls, store_failed, fetch, units>>

\* detect_file_type and extract_text_from_uploaded_file (api);
\* the bucket name parsing and extract_text_from_s3_file (s3)
Extract(p) ==
    /\ pc[p] = "Extract"
    /\ Did(p, "Extract")
    /\ LET e == request[p].entry
           d == request[p].doc
       IN  \E file \in {"ok", "UNKNOWN", "corrupt", "bad_bucket"} :
             \/ /\ file = "bad_bucket"
                /\ e = "s3"
                /\ Raise(p, "Extract")
             \/ /\ file = "UNKNOWN"
                /\ Return(p, Failure("unsupported"))
             \/ /\ file = "corrupt"
                /\ Return(p, Failure("extract_failed"))
             \/ /\ file = "ok"
                /\ EmptyDocument(DocText(d))
                /\ Return(p, Failure("empty"))
             \/ /\ file = "ok"
                /\ ~EmptyDocument(DocText(d))
                /\ document_hash' = [document_hash EXCEPT ![p] =
                       IF e = "api" THEN Sha256(d) ELSE request[p].hash_value]
                /\ Go(p, "Extract")
                /\ UNCHANGED <<ai_category, usecase_data, usecase_id, scan, seen>>
    /\ UNCHANGED <<store, request, calls, store_failed, fetch, units>>

\* the duplicate check of process_document_upload: one scan call
Dedupe(p) ==
    /\ pc[p] = "Dedupe"
    /\ Did(p, "Dedupe")
    /\ \/ /\ store_failed' = TRUE
          /\ Called(p, Call("Dedupe", "scan", 0, FALSE))
          /\ Go(p, "Dedupe")
          /\ UNCHANGED locals
       \/ /\ Called(p, Call("Dedupe", "scan", 0, TRUE))
          /\ LET items == HashMatches(ScanCall(store[TableOf(p)], 0).Evaluated,
                                      document_hash[p])
             IN  IF Len(items) > 0
                   THEN Return(p, [Failure("duplicate") EXCEPT
                                       !.existing_id = {items[1].id}])
                   ELSE Go(p, "Dedupe") /\ UNCHANGED locals
          /\ UNCHANGED store_failed
    /\ UNCHANGED <<store, request, fetch, units>>

\* number of records of the methodology-metrics mapping table
CatalogueSize == 2

\* the mapping table: it is only read
Catalogue == [i \in 1..CatalogueSize |-> i]

\* as if the store answered the last page with a key that starts the scan
\* over: LastEvaluatedKey is never absent
FetchScan_Rewind(start) ==
    LET response == ScanCall(Catalogue, start)
    IN  [response EXCEPT
            !.HasLastEvaluatedKey = TRUE,
            !.LastEvaluatedKey = IF start < Len(Catalogue) THEN @ ELSE 1]

\* response = table.scan(**scan_kwargs) with ExclusiveStartKey = start
FetchScan(start) == ScanCall(Catalogue, start)

\* fetch_all_dynamodb_records on the mapping table: one scan call per step of
\* the `while True` loop; a raise is caught inside and answered with []
Fetch(p) ==
    /\ pc[p] = "Fetch"
    /\ IF fetch[p] = 0 THEN Did(p, "Fetch") ELSE UNCHANGED trace
    /\ \/ /\ fetch' = [fetch EXCEPT ![p] = 0]
          /\ Go(p, "Fetch")
       \/ LET response == FetchScan(fetch[p])
          IN  IF response.HasLastEvaluatedKey
                THEN /\ fetch' = [fetch EXCEPT ![p] = response.LastEvaluatedKey]
                     /\ UNCHANGED <<pc, outputs>>
                ELSE /\ fetch' = [fetch EXCEPT ![p] = 0]
                     /\ Go(p, "Fetch")
    /\ UNCHANGED <<store, request, locals, calls, store_failed, units>>

\* summarize_document_with_llm: call_llm raises, or response.strip() raises
\* on a None content; neither is caught before the orchestrator
Summarize(p) ==
    /\ pc[p] = "Summarize"
    /\ Did(p, "Summarize")
    /\ \E llm \in {LlmRaise, LlmNone, LlmText({})} :
         /\ Called(p, Call("Summarize", "llm", 0, Usable(llm)))
         /\ IF llm.kind = "text"
              THEN Go(p, "Summarize") /\ UNCHANGED locals
              ELSE Raise(p, "Summarize")
    /\ UNCHANGED <<store, request, store_failed, fetch, units>>

ClassifierLlmOutcomes == {LlmRaise, LlmNone, LlmText({"Agentic AI"})}

\* the classifier call and the try/except around it in the orchestrator
Classify(p) ==
    /\ pc[p] = "Classify"
    /\ Did(p, "Classify")
    /\ \E llm \in ClassifierLlmOutcomes :
         LET r == determine_ai_category_and_approach_with_llm(
                      DocText(request[p].doc), llm)
         IN  /\ Called(p, Call("Classify", "llm", 0, Usable(llm)))
             /\ ai_category' = [ai_category EXCEPT ![p] =
                    IF r.raised THEN "AI Workflow Agents" ELSE r.category]
    /\ Go(p, "Classify")
    /\ UNCHANGED <<document_hash, usecase_data, usecase_id, scan, seen>>
    /\ UNCHANGED <<store, request, store_failed, fetch, units>>

\* the design document call_llm of the orchestrator
Design(p) ==
    /\ pc[p] = "Design"
    /\ Did(p, "Design")
    /\ \E llm \in {LlmRaise, LlmText({})} :
         /\ Called(p, Call("Design", "llm", 0, Usable(llm)))
         /\ IF llm.kind = "text"
              THEN Go(p, "Design") /\ UNCHANGED locals
              ELSE Raise(p, "Design")
    /\ UNCHANGED <<store, request, store_failed, fetch, units>>

\* generate_usecase_with_llm_focused: returns {"error": ...} on any failure
\* (the LLM call, the parse, the enhancement), else the enhanced output
Generate(p) ==
    /\ pc[p] = "Generate"
    /\ Did(p, "Generate")
    /\ \E llm \in {LlmRaise, LlmNone, LlmText({})} :
         /\ Called(p, Call("Generate", "llm", 0, Usable(llm)))
         /\ IF ~Usable(llm)
              THEN Return(p, Failure("generation"))
              ELSE \/ Return(p, Failure("generation"))
                   \/ /\ \E data \in GeneratorOutputs :
                           usecase_data' = [usecase_data EXCEPT ![p] = data]
                      /\ Go(p, "Generate")
                      /\ UNCHANGED <<document_hash, ai_category, usecase_id,
                                     scan, seen>>
    /\ UNCHANGED <<store, request, store_failed, fetch, units>>

\* generate_sequential_id: one scan call per step of the pagination loop; any
\* raise inside is caught and answered with the timestamp fallback
Allocate(p) ==
    /\ pc[p] = "Allocate"
    /\ IF scan[p].started THEN UNCHANGED trace ELSE Did(p, "Allocate")
    /\ seen' = [seen EXCEPT ![p] =
           IF scan[p].started THEN @
           ELSE {store[TableOf(p)][i].id : i \in 1..Len(store[TableOf(p)])}]
    /\ \/ /\ \E ts \in Timestamps :
               usecase_id' = [usecase_id EXCEPT ![p] = {FallbackId(ts)}]
          /\ scan' = [scan EXCEPT ![p].started = TRUE, ![p].fallback = TRUE]
          /\ Called(p, Call("Allocate", "scan", scan[p].cursor, FALSE))
          /\ store_failed' = TRUE
          /\ Go(p, "Allocate")
       \/ /\ Called(p, Call("Allocate", "scan", scan[p].cursor, TRUE))
          /\ LET response == ScanCall(store[TableOf(p)], scan[p].cursor)
                 items == scan[p].items \cup PrefixIds(response.Evaluated)
             IN  IF response.HasLastEvaluatedKey
                   THEN /\ scan' = [scan EXCEPT ![p] =
                               [items |-> items,
                                cursor |-> response.LastEvaluatedKey,
                                started |-> TRUE, fallback |-> FALSE]]
                        /\ UNCHANGED <<pc, outputs, usecase_id>>
                   ELSE /\ scan' = [scan EXCEPT ![p] =
                               [items |-> items,
                                cursor |-> response.LastEvaluatedKey,
                                started |-> TRUE, fallback |-> FALSE]]
                        /\ usecase_id' = [usecase_id EXCEPT ![p] =
                               {SequentialId(items)}]
                        /\ Go(p, "Allocate")
          /\ UNCHANGED store_failed
    /\ UNCHANGED <<store, request, document_hash, ai_category, usecase_data,
                   fetch, units>>

\* usecase_table.put_item(Item=usecase_item) and the success return
Persist(p) ==
    /\ pc[p] = "Persist"
    /\ Did(p, "Persist")
    /\ \/ /\ store_failed' = TRUE
          /\ Called(p, Call("Persist", "put", 0, FALSE))
          /\ Raise(p, "Persist")
          /\ UNCHANGED store
       \/ /\ Called(p, Call("Persist", "put", 0, TRUE))
          /\ LET id == Pick(usecase_id[p], OtherId(<<>>))
                 item == usecase_item(id, ai_category[p], document_hash[p],
                                      usecase_data[p], p)
             IN  /\ store' = [store EXCEPT ![TableOf(p)] = put_item(@, item)]
                 /\ Return(p, [kind |-> "success", usecase_id |-> {id},
                               existing_id |-> {},
                               ai_category |-> ai_category[p]])
          /\ UNCHANGED store_failed
    /\ UNCHANGED <<request, fetch, units>>

Step(p) ==
    \/ Receive(p)
    \/ Extract(p)
    \/ Dedupe(p)
    \/ Fetch(p)
    \/ Summarize(p)
    \/ Classify(p)
    \/ Design(p)
    \/ Generate(p)
    \/ Allocate(p)
    \/ Persist(p)

Next == \E p \in Procs : Step(p)

\* ingestions that may overlap in any way
Spec == Init /\ [][Next]_vars

\* no other ingestion is in flight
Quiet(p) == \A q \in Procs \ {p} : pc[q] \in {"idle", "done"}

NextSeq ==
    \E p \in Procs :
        \/ Quiet(p) /\ Receive(p)
        \/ Quiet(p) /\ Extract(p)
        \/ Quiet(p) /\ Dedupe(p)
        \/ Quiet(p) /\ Fetch(p)
        \/ Quiet(p) /\ Summarize(p)
        \/ Quiet(p) /\ Classify(p)
        \/ Quiet(p) /\ Design(p)
        \/ Quiet(p) /\ Generate(p)
        \/ Quiet(p) /\ Allocate(p)
        \/ Quiet(p) /\ Persist(p)

\* ingestions one at a time (no concurrent writers)
SpecSeq == Init /\ [][NextSeq]_vars

\* --------------------------------- one ingestion against a table in use

\* number of records earlier ingestions have left in the table
MaxSeed == 2

\* a record an earlier ingestion has put
Seed(id, d) == [id |-> id, aiCategory |-> "Machine Learning",
                documentHash |-> Sha256(d), by |-> 0]

\* records under sequential ids, under a key whose suffix is not a number
\* and under the bare prefix
SeedRecords == {Seed(PrefixId(Format03d(1)), 1),
                Seed(PrefixId(Format03d(2)), 2),
                Seed(PrefixId(<<NonDigit>>), 2),
                Seed(PrefixId(<<>>), 1)}

\* tables of at most MaxSeed records, no key twice
SeedTables ==
    {tb \in UNION {[1..n -> SeedRecords] : n \in 0..MaxSeed} :
        \A i, j \in 1..Len(tb) : i # j => tb[i].id # tb[j].id}

InitOne ==
    /\ \E tb \in SeedTables :
         InitPipelineOver([t \in Tenants |-> IF t = "t1" THEN tb ELSE <<>>])
    /\ NoUnits({})

NextOne == Step(1)

\* one ingestion, start to end, against the table earlier ones have left
SpecOne == InitOne /\ [][NextOne]_vars

\* every external call returns or fails, so the ingestion keeps taking steps
SpecOneFair == SpecOne /\ WF_vars(NextOne)

\* ------------------------------------------------- the classifier on its own

\* number of phrases in a document text or in an LLM response
MaxPhrases == 2

Bounded(S) == {T \in SUBSET S : Cardinality(T) <= MaxPhrases}

ResponsePhrases == {"Machine Learning", "Agentic AI", "AI Workflow Agents",
                    "Agentic AI Workflow Agents", "machine learning",
                    "Next.js + ADK + MCP", "Next.js + ADK", "Custom AI Stack"}

LlmOutcomes == {LlmRaise, LlmNone} \cup {LlmText(t) : t \in Bounded(ResponsePhrases)}

InitClassifier ==
    /\ InitPipeline
    /\ \E t \in Bounded(Vocabulary), llm \in LlmOutcomes :
         classifier = [NoCall EXCEPT !.document_text = t, !.llm = llm]
    /\ NoUnits({"classifier"})

CallClassifier ==
    /\ ~classifier.returned
    /\ classifier' = [classifier EXCEPT
           !.returned = TRUE,
           !.result = determine_ai_category_and_approach_with_llm(
                          classifier.document_text, classifier.llm)]
    /\ UNCHANGED <<pipeline, generator, parser, extractor>>

\* every document text and every LLM outcome, one classifier call each
SpecClassifier == InitClassifier /\ [][CallClassifier]_vars

\* -------------------------------------------------- the generator on its own

\* length of the metrics list of a model response
MaxMetrics == 2

\* phrases of a document text that matter to the provider search
ProviderVocabulary == {"AWS", "azure", "Google Cloud Platform",
                       "Amazon Web Services", "laws"}

\* the elements a model may put in its metrics list
ModelMetricItems == {NotAnObject, Metric("m", {}), Metric("m", {95})}

ModelMetricLists ==
    UNION {[1..n -> ModelMetricItems] : n \in 0..MaxMetrics}

ModelMetrics == {NoMetrics, NotAList} \cup {MetricList(l) : l \in ModelMetricLists}

\* what json.loads gave for the model text: a dict, with or without the keys
\* the generator sets itself, or a value that is not a dict
ModelResponses ==
    {[NoParsed EXCEPT !.kind = "list"]} \cup
    [kind : {"dict"},
     status : {{}, {"Completed"}},
     usecaseCategory : {{}, {"Generative AI"}},
     cloudProvider : {{}, {"Oracle"}},
     metrics : ModelMetrics,
     strings : {NoStrings}]

\* the hint both orchestrators pass
Hints == {"GCP"}

InitGenerator ==
    /\ InitPipeline
    /\ NoUnits({"generator"})
    /\ \E e \in {"api", "s3"}, t \in Bounded(ProviderVocabulary),
          c \in Categories \cup {"Other"}, h \in Hints, r \in ModelResponses :
         generator = [NoGeneration EXCEPT
                         !.entry = e, !.document_text = t, !.ai_category = c,
                         !.cloud_provider = h, !.parsed = r]

CallGenerator ==
    /\ ~generator.returned
    /\ generator' = [generator EXCEPT
           !.returned = TRUE,
           !.usecase_data = generate_usecase_with_llm_focused(
                                generator.entry, generator.document_text,
                                generator.ai_category, generator.cloud_provider,
                                generator.parsed)]
    /\ UNCHANGED <<pipeline, classifier, parser, extractor>>

\* every parsed response, one generator call each
SpecGenerator == InitGenerator /\ [][CallGenerator]_vars

\* --------------------------------------- the string fields of a response

\* the values a model gives to a field that is to hold a string
FieldValues == {Absent, StrValue(<<"Python">>), StrValue(<<>>),
                ListValue(<<"Python", "AWS">>), ListValue(<<"Python">>),
                ListValue(<<>>), OtherValue("3")}

\* responses that differ in their string fields only
InitStrings ==
    /\ InitPipeline
    /\ NoUnits({"generator"})
    /\ \E e \in {"api", "s3"}, c \in Categories,
          f \in [string_fields -> FieldValues] :
         generator = [NoGeneration EXCEPT
                         !.entry = e, !.ai_category = c, !.cloud_provider = "GCP",
                         !.parsed = [NoParsed EXCEPT !.kind = "dict",
                                                     !.strings = f]]

\* every combination of values of the string fields, one generator call each
SpecStrings == InitStrings /\ [][CallGenerator]_vars

\* ------------------------------------------------- the extractor on its own

\* length of a raw text, in characters
MaxRaw == 3

Characters == {"a", "b"} \cup Whitespace

RawTexts == UNION {[1..n -> Characters] : n \in 0..MaxRaw}

\* two uploads, each the decoded text of a file
InitExtractor ==
    /\ InitPipeline
    /\ NoUnits({"extractor"})
    /\ \E t1, t2 \in RawTexts :
         extractor = [NoExtraction EXCEPT !.entry = "api", !.raw = <<t1, t2>>]

\* extract_text_from_uploaded_file from the decoded text on, once per upload
CallExtractor ==
    /\ ~extractor.returned
    /\ extractor' = [extractor EXCEPT
           !.returned = TRUE,
           !.text = [i \in 1..2 |-> Normalize(extractor.raw[i])],
           !.document_hash =
               [i \in 1..2 |-> Sha256(Normalize(extractor.raw[i]))]]
    /\ UNCHANGED <<pipeline, classifier, generator, parser>>

\* every pair of raw texts, one extraction each
SpecExtractor == InitExtractor /\ [][CallExtractor]_vars

\* ---------------------------------------------------- the parser on its own

\* length of a model text, in pieces
MaxPieces == 4

\* the pieces a model text is made of
Pieces == {"{", "}", ",", "p", "e", "c", "x"}

ModelTexts == UNION {[1..n -> Pieces] : n \in 0..MaxPieces}

InitParser ==
    /\ InitPipeline
    /\ NoUnits({"parser"})
    /\ \E e \in {"api", "s3"}, t \in ModelTexts :
         parser = [NoParse EXCEPT !.entry = e, !.text = t]

CallParser ==
    /\ ~parser.returned
    /\ parser' = [parser EXCEPT
           !.returned = TRUE,
           !.result = parse_response(parser.entry, parser.text)]
    /\ UNCHANGED <<pipeline, classifier, generator, extractor>>

\* every model text, one parse each
SpecParser == InitParser /\ [][CallParser]_vars

\* ================================================================== claims

Done(p) == pc[p] = "done"

Succeeded(p) == Done(p) /\ result[p].kind = "success"

\* p returned before q did
Before(p, q) ==
    \E i, j \in 1..Len(finished) : i < j /\ finished[i] = p /\ finished[j] = q

\* q presents the very request p presented
SameRequest(p, q) == request[p] = request[q]

\* the hash an ingestion checks and stores
HashOf(p) == IF request[p].entry = "api" THEN Sha256(request[p].doc)
             ELSE request[p].hash_value

Records(t) == {store[t][i] : i \in 1..Len(store[t])}

Range(seq) == {seq[i] : i \in 1..Len(seq)}

\* C1 (as claimed): with ingestions one at a time and no store failure, a
\* second ingestion of the same document for the same tenant that gets through
\* its extraction and LLM calls ends as a duplicate naming the id the first
\* one returned, and the table holds exactly one record of that document.
C1_DuplicateRejected ==
    \A p, q \in Procs :
        ( /\ p # q
          /\ Succeeded(p)
          /\ Done(q)
          /\ Before(p, q)
          /\ SameRequest(p, q)
          /\ ~store_failed
          /\ result[q].kind \in {"success", "duplicate"} )
        => ( /\ result[q].kind = "duplicate"
             /\ result[q].existing_id = result[p].usecase_id
             /\ Cardinality({r \in Records(TableOf(p)) :
                                r.documentHash = HashOf(p)}) = 1 )

\* C2 (as claimed): with ingestions one at a time on tables that start empty
\* and no store failure, the k-th successful ingestion of a tenant is assigned
\* the prefix followed by k zero-padded to three digits.
C2_SequentialIds ==
    \A t \in Tenants :
        LET ok == SelectSeq(finished,
                      LAMBDA p : Succeeded(p) /\ TableOf(p) = t)
        IN  ~store_failed =>
                \A k \in 1..Len(ok) :
                    result[ok[k]].usecase_id = {PrefixId(Format03d(k))}

\* C3 (as claimed): in every interleaving, no two successful ingestions of
\* the same tenant table are assigned the same id.
C3_UniqueIds ==
    \A p, q \in Procs :
        (p # q /\ Succeeded(p) /\ Succeeded(q) /\ TableOf(p) = TableOf(q))
        => result[p].usecase_id # result[q].usecase_id

\* C4 (as claimed): no two records of a tenant's table have the same
\* documentHash; stated here even granting that no store call has failed.
C4_UniqueHashes ==
    ~store_failed =>
        \A t \in Tenants :
            \A i, j \in 1..Len(store[t]) :
                i # j => store[t][i].documentHash # store[t][j].documentHash

\* C5 (as claimed): an ingestion that has put its record had performed
\* extraction, summarization, classification, generation, the dedupe check and
\* id allocation before; an ingestion that ended in failure has put nothing.
C5_PutAfterAllSteps ==
    \A p \in Procs :
        /\ Succeeded(p) =>
              {"Extract", "Summarize", "Classify", "Generate", "Dedupe",
               "Allocate"} \subseteq Range(trace[p])
        /\ (Done(p) /\ result[p].kind # "success") =>
              \A t \in Tenants : \A r \in Records(t) : r.by # p

\* C6 (as claimed): once an ingestion has returned success, the record it
\* put is in the store, unchanged, in every later state.
C6_RecordsImmutable ==
    \A p \in Procs :
        Succeeded(p) => \E r \in Records(TableOf(p)) : r.by = p

\* the steps the pipeline description names (the design document call is not
\* one of them)
NamedSteps == {"Extract", "Summarize", "Classify", "Generate", "Dedupe",
               "Allocate", "Persist"}

Named(p) == SelectSeq(trace[p], LAMBDA x : x \in NamedSteps)

IsPrefix(a, b) == Len(a) <= Len(b) /\ SubSeq(b, 1, Len(a)) = a

C8_AlwaysEnvelope ==
    \A p \in Procs :
        /\ escaped[p] = "no"
        /\ Done(p) => (status[p] \in {200, 400, 500} /\ result[p].kind # "none")

\* one request failed on a malformed body, another on an exception of the
\* final put
C8_Witness ==
    \E p, q \in Procs :
        /\ Done(p) /\ result[p].kind = "bad_request"
        /\ Done(q) /\ result[q].kind = "exception"
        /\ trace[q][Len(trace[q])] = "Persist"

\* C9 (as claimed): the status is 200 exactly on success, 400 on a validation
\* failure or a duplicate, 500 on an internal failure.
C9_StatusCodes ==
    \A p \in Procs :
        Done(p) =>
            /\ (status[p] = 200) <=> (result[p].kind = "success")
            /\ result[p].kind \in {"missing_fields", "unsupported", "empty",
                                   "duplicate"} => status[p] = 400
            /\ result[p].kind \in {"exception", "generation"} => status[p] = 500

\* C10: a classifier call returns without raising, with one of the three
\* categories.
C10_ClassifierTotal ==
    classifier.returned =>
        /\ ~classifier.result.raised
        /\ classifier.result.category \in Categories

\* the LLM call gave no usable text and the keyword fallback chose a category
\* other than the default
C10_Witness ==
    /\ classifier.returned
    /\ classifier.llm = LlmNone
    /\ classifier.result.category = "Machine Learning"

\* the LLM call of `step` in ingestion p gave no usable answer
LlmFailedAt(p, step) ==
    \E i \in 1..Len(calls[p]) :
        calls[p][i].step = step /\ calls[p][i].to = "llm" /\ ~calls[p][i].ok

LastCall(p) == calls[p][Len(calls[p])]

\* C11: an ingestion whose classifier LLM call has just failed goes on, with
\* the keyword-fallback category of its document; an ingestion whose LLM call
\* failed in Summarize or in Generate has ended in a failure and has put no
\* record.
C11_ClassifyAbsorbsLlmFailure ==
    \A p \in Procs :
        /\ ( /\ Len(calls[p]) > 0
             /\ LastCall(p).step = "Classify"
             /\ ~LastCall(p).ok )
           => ( /\ ~Done(p)
                /\ ai_category[p] =
                     determine_ai_category_based_on_data_fallback(
                         DocText(request[p].doc))
                /\ ai_category[p] \in Categories )
        /\ (LlmFailedAt(p, "Summarize") \/ LlmFailedAt(p, "Generate"))
           => ( /\ Done(p)
                /\ result[p].kind \in {"exception", "generation"}
                /\ \A t \in Tenants : \A r \in Records(t) : r.by # p )

\* an ingestion whose classifier LLM call failed has stored a record that
\* carries the keyword-fallback category, and another one ended on a failed
\* summary call
C11_Witness ==
    \E p, q \in Procs :
        /\ Succeeded(p)
        /\ LlmFailedAt(p, "Classify")
        /\ \E r \in Records(TableOf(p)) :
              r.by = p /\ r.aiCategory = "Machine Learning"
        /\ LlmFailedAt(q, "Summarize")
        /\ Done(q)

\* C12 (as claimed): two ingestions that ran to success, one through each
\* entry, performed the same sequence of steps, and that sequence has the
\* dedupe check before the put.
C12_SamePipeline ==
    \A p, q \in Procs :
        ( /\ Succeeded(p) /\ request[p].entry = "api"
          /\ Succeeded(q) /\ request[q].entry = "s3" )
        => ( /\ Named(p) = Named(q)
             /\ \E i, j \in 1..Len(trace[q]) :
                   i < j /\ trace[q][i] = "Dedupe" /\ trace[q][j] = "Persist" )

\* the generator returned a use case, not an error
Generated == generator.returned /\ generator.usecase_data.kind = "dict"

\* C13: whatever the parsed model response holds under status, usecaseCategory
\* and cloudProvider, the item built from the generator output has the literal
\* status, the classifier's category and the provider found in the text or,
\* failing that, the hint.
C13_ForcedFields ==
    Generated =>
        LET item == ItemFields(generator.usecase_data)
        IN  /\ item.status = {"Not yet started"}
            /\ item.usecaseCategory = {generator.ai_category}
            /\ item.cloudProvider =
                  {final_cloud_provider(generator.document_text,
                                        generator.cloud_provider)}
            /\ item.cloudProvider \subseteq {"AWS", "Azure", "GCP"}

\* the model answered with its own status, category and provider, and the
\* text names a provider through an alias
C13_Witness ==
    /\ Generated
    /\ generator.parsed.status = {"Completed"}
    /\ generator.parsed.usecaseCategory = {"Generative AI"}
    /\ generator.parsed.cloudProvider = {"Oracle"}
    /\ generator.document_text = {"Amazon Web Services"}
    /\ ItemFields(generator.usecase_data).cloudProvider = {"AWS"}

\* C20 (as claimed): after enhancement the metrics are a non-empty list of
\* objects that all have a threshold; a non-empty list of the model is kept,
\* with 80 for a missing threshold, and anything else gives the default set.
C20_MetricsValid ==
    Generated =>
        LET metrics == generator.usecase_data.metrics
            raw == generator.parsed.metrics
            objects == {i \in 1..Len(raw.items) : raw.items[i].obj}
        IN  /\ metrics.type = "list"
            /\ Len(metrics.items) > 0
            /\ \A i \in 1..Len(metrics.items) :
                  metrics.items[i].obj /\ metrics.items[i].threshold # {}
            /\ (raw.type # "list" \/ objects = {}) =>
                  metrics.items = DefaultMetrics(generator.entry,
                                                 generator.ai_category)

\* C14: an ingestion that has started ends with a result, success or failure
\* (every external call returning or failing).
C14_Terminates ==
    \A p \in Procs :
        (pc[p] \notin {"idle", "done"})
            ~> (Done(p) /\ result[p].kind # "none" /\ status[p] # 0)

\* an ingestion has ended after an id scan of more than one page
C14_Witness ==
    \E p \in Procs :
        /\ Succeeded(p)
        /\ "Fetch" \in Range(trace[p])
        /\ \E i \in 1..Len(calls[p]) :
              /\ calls[p][i].step = "Allocate"
              /\ calls[p][i].start > 0
              /\ calls[p][i].ok

\* C15: within one ingestion no external call is issued twice: one LLM call
\* per LLM step, one dedupe scan, one scan call per position of the id scan,
\* one put, whether the call failed or not.
C15_AtMostOnce ==
    \A p \in Procs :
        \A i, j \in 1..Len(calls[p]) :
            i # j =>
                \/ calls[p][i].step # calls[p][j].step
                \/ calls[p][i].to # calls[p][j].to
                \/ calls[p][i].start # calls[p][j].start

\* an ingestion ended on a put that failed, after an id scan of two pages
C15_Witness ==
    \E p \in Procs :
        /\ Done(p)
        /\ result[p].kind = "exception"
        /\ Len(calls[p]) > 0
        /\ LastCall(p) = Call("Persist", "put", 0, FALSE)
        /\ Cardinality({i \in 1..Len(calls[p]) :
                           calls[p][i].step = "Allocate"}) > 1
        /\ Cardinality({i \in 1..Len(calls[p]) : calls[p][i].to = "llm"}) > 3

\* the keys of a table
Keys(t) == {r.id : r \in Records(t)}

\* C16: an id scan whose pages all succeeded yields the prefix followed by
\* m + 1 in at least three digits, m being the largest number among the
\* all-digit suffixes of the prefixed keys of the whole table (0 if none);
\* the id is not a key of the table.
C16_NextAfterMax ==
    \A p \in Procs :
        (pc[p] = "Persist" /\ ~scan[p].fallback) =>
            LET nums == {ToInt(k.suf) : k \in {x \in Keys(TableOf(p)) :
                                                  x.pfx /\ IsDigit(x.suf)}}
                m == IF nums = {} THEN 0
                     ELSE CHOOSE n \in nums : \A o \in nums : o <= n
            IN  /\ usecase_id[p] = {PrefixId(Format03d(m + 1))}
                /\ usecase_id[p] \cap Keys(TableOf(p)) = {}
                /\ \A id \in usecase_id[p] : Len(id.suf) >= 3

\* the highest number is on the second page, after a key whose suffix is not
\* a number
C16_Witness ==
    \E p \in Procs :
        /\ pc[p] = "Persist"
        /\ ~scan[p].fallback
        /\ store[TableOf(p)] = <<Seed(PrefixId(<<NonDigit>>), 2),
                                 Seed(PrefixId(Format03d(2)), 2)>>
        /\ usecase_id[p] = {PrefixId(Format03d(3))}

\* the id scan of ingestion p failed at one of its pages
IdScanFailed(p) ==
    \E i \in 1..Len(calls[p]) :
        calls[p][i].step = "Allocate" /\ ~calls[p][i].ok

\* C17: when the id scan fails on any page the allocator does not raise: the
\* id is the prefix followed by the current Unix timestamp, no further page is
\* read, the ingestion goes on to the final put, and when the put
\* succeeds the ingestion ends in success and reports that id.
C17_ScanFailureFallsBack ==
    \A p \in Procs :
        IdScanFailed(p) =>
            /\ pc[p] \in {"Persist", "done"}
            /\ \A i \in 1..Len(calls[p]) :
                   (calls[p][i].step = "Allocate" /\ ~calls[p][i].ok) =>
                       \A j \in (i + 1)..Len(calls[p]) :
                           calls[p][j].step = "Persist"
            /\ pc[p] = "Persist" =>
                   \E ts \in Timestamps :
                       usecase_id[p] = {PrefixId(ToDigits(ts))}
            /\ Done(p) =>
                   /\ LastCall(p).step = "Persist"
                   /\ LastCall(p).ok =>
                          /\ Succeeded(p)
                          /\ \E ts \in Timestamps :
                                 result[p].usecase_id =
                                     {PrefixId(ToDigits(ts))}

\* an ingestion that succeeded although the second page of its id scan failed
C17_Witness ==
    \E p \in Procs :
        /\ Succeeded(p)
        /\ \E i \in 1..Len(calls[p]) :
               /\ calls[p][i] = Call("Allocate", "scan", 0, TRUE)
               /\ \E j \in (i + 1)..Len(calls[p]) :
                      /\ calls[p][j].step = "Allocate"
                      /\ calls[p][j].start > 0
                      /\ ~calls[p][j].ok

\* the duplicate check of ingestion p got an answer from the store
DedupeAnswered(p) ==
    \E i \in 1..Len(calls[p]) :
        calls[p][i].step = "Dedupe" /\ calls[p][i].ok

\* records of p's table, written by another ingestion, that carry the hash of
\* p's document
SameHash(p) ==
    {r \in Records(TableOf(p)) :
         r.by # p /\ r.documentHash = Sha256(request[p].doc)}

\* C18: the duplicate check reports a duplicate if and only if some record
\* anywhere in the table, on whichever scan page, has the document's hash.
C18_FullScanIff ==
    \A p \in Procs :
        DedupeAnswered(p) =>
            ((Done(p) /\ result[p].kind = "duplicate") <=> SameHash(p) # {})

\* C19: an ingestion that ends as an unsupported format or as an empty
\* document ran the Extract step only and issued no LLM call, no scan and no
\* put; an ingestion of the document with empty text never gets past Extract.
C19_FailsBeforeAnyCall ==
    \A p \in Procs :
        /\ (Done(p) /\ result[p].kind \in {"unsupported", "empty"}) =>
               /\ trace[p] = <<"Extract">>
               /\ calls[p] = <<>>
               /\ \A t \in Tenants : \A r \in Records(t) : r.by # p
        /\ (request[p].entry # "" /\ DocText(request[p].doc) = {}) =>
               /\ calls[p] = <<>>
               /\ IsPrefix(trace[p], <<"Extract">>)
               /\ ~Succeeded(p)

\* one ingestion ended as an empty document and another as an unsupported
\* format
C19_Witness ==
    \E p, q \in Procs :
        /\ Done(p) /\ result[p].kind = "empty"
        /\ Done(q) /\ result[q].kind = "unsupported"
        /\ request[p].entry # request[q].entry

\* the parsed response has no metric the enhancement could keep: the key is
\* missing, its value is not a list, or the list holds no object
NoUsableMetrics(raw_metrics) ==
    \/ raw_metrics.type # "list"
    \/ \A i \in 1..Len(raw_metrics.items) : ~raw_metrics.items[i].obj

\* C21 (as claimed): when the response has no usable metrics the enhanced
\* metrics are exactly the default set of the category (for Agentic AI the
\* Agentic AI set), and that set has four or five metrics.
C21_DefaultsByCategory ==
    (Generated /\ NoUsableMetrics(generator.parsed.metrics)) =>
        LET metrics == generator.usecase_data.metrics
        IN  /\ metrics = MetricList(DefaultMetrics(generator.entry,
                                                   generator.ai_category))
            /\ Len(metrics.items) \in 4..5

\* the canonical names of the providers that occur in a text of the provider
\* vocabulary, by name or by alias, in any case and also inside a longer word
Mentioned(document_text) ==
    {c \in {"AWS", "Azure", "GCP"} :
        \/ c = "AWS" /\ document_text \cap {"AWS", "Amazon Web Services", "laws"} # {}
        \/ c = "Azure" /\ "azure" \in document_text
        \/ c = "GCP" /\ "Google Cloud Platform" \in document_text}

\* C22 (as claimed): the effective provider equals the hint if and only if no
\* provider name or alias occurs in the text.
C22_HintIffNoMention ==
    Generated =>
        (ItemFields(generator.usecase_data).cloudProvider
             = {generator.cloud_provider}
         <=> Mentioned(generator.document_text) = {})

\* C22 (amended): with no provider name or alias in the text the effective
\* provider is the hint; otherwise it is the canonical name of a provider
\* that occurs in the text, which may be the provider the hint names.
C22_ProviderFromText ==
    Generated =>
        LET provider == ItemFields(generator.usecase_data).cloudProvider
            mentioned == Mentioned(generator.document_text)
        IN  /\ mentioned = {} => provider = {generator.cloud_provider}
            /\ mentioned # {} =>
                   \E c \in mentioned : provider = {c}

\* the text names the hinted provider through an alias
C22_Witness ==
    /\ Generated
    /\ generator.document_text = {"Google Cloud Platform"}
    /\ generator.cloud_provider = "GCP"
    /\ ItemFields(generator.usecase_data).cloudProvider = {"GCP"}

\* the three tiers, each on its own: the text as it is, the text between the
\* first opening and the last closing brace, and that text without trailing
\* commas
Tier(k, text) ==
    IF k = 1 THEN JsonLoads(text)
    ELSE IF ~HasBraces(text) THEN ParseFailed
    ELSE IF k = 2 THEN JsonLoads(JsonText(text))
    ELSE JsonLoads(RemoveTrailingCommas(JsonText(text)))

\* C23 (as claimed): the parse fails if and only if all three tiers fail, and
\* otherwise its value is the object of the first tier that succeeds.
C23_FirstTierWins ==
    parser.returned =>
        LET won == {k \in 1..3 : Tier(k, parser.text).ok}
        IN  IF won = {} THEN ~parser.result.ok
            ELSE parser.result =
                     Tier(CHOOSE k \in won : \A j \in won : k <= j, parser.text)

\* C24: when the LLM call gave a text, the category is Machine Learning if
\* that literal occurs in the text, else Agentic AI if that literal occurs,
\* else AI Workflow Agents; the approach is MCP-Oriented Orchestration if
\* "Next.js + ADK + MCP" occurs, else Next.js with ADK if "Next.js + ADK"
\* occurs, else Custom AI Stack. Literals are matched in their own case.
C24_FirstMatchWins ==
    (classifier.returned /\ classifier.llm.kind = "text") =>
        LET response == classifier.llm.text
            r == classifier.result
        IN  /\ ~r.raised
            /\ r.category =
                 IF "Machine Learning" \in response THEN "Machine Learning"
                 ELSE IF response \cap {"Agentic AI",
                                        "Agentic AI Workflow Agents"} # {}
                   THEN "Agentic AI"
                 ELSE "AI Workflow Agents"
            /\ r.approach =
                 IF "Next.js + ADK + MCP" \in response
                   THEN "MCP-Oriented Orchestration"
                 ELSE IF "Next.js + ADK" \in response THEN "Next.js with ADK"
                 ELSE "Custom AI Stack"

\* the response names two categories and the first of the order won
C24_Witness ==
    /\ classifier.returned
    /\ classifier.llm = LlmText({"Agentic AI", "Machine Learning"})
    /\ classifier.result.category = "Machine Learning"
    /\ classifier.result.approach = "Custom AI Stack"

\* the keyword set of a category
KeywordsOf(category) ==
    IF category = "Machine Learning" THEN ml_keywords
    ELSE IF category = "Agentic AI" THEN agentic_keywords
    ELSE workflow_keywords

\* the categories whose keyword score on a text is above both others
StrictlyHighest(document_text) ==
    {c \in Categories :
        \A d \in Categories \ {c} :
            Score(KeywordsOf(c), Lower(document_text))
                > Score(KeywordsOf(d), Lower(document_text))}

RECURSIVE Collapsed(_)
Collapsed(raw) ==
    IF Len(raw) = 0 THEN <<>>
    ELSE LET init == Collapsed(SubSeq(raw, 1, Len(raw) - 1))
             last == raw[Len(raw)]
             rest == {i \in 1..(Len(raw) - 1) : raw[i] \notin Whitespace}
         IN  IF last \in Whitespace THEN init
             ELSE IF rest = {} THEN <<last>>
             ELSE IF raw[Len(raw) - 1] \in Whitespace
               THEN init \o <<" ", last>>
             ELSE Append(init, last)

\* C26: two raw texts that collapse to the same whitespace-normalized string
\* get the same document hash (and two that do not, different ones); the
\* text returned is that string, and normalizing it again changes nothing.
C26_HashOfNormalizedText ==
    extractor.returned =>
        /\ (Collapsed(extractor.raw[1]) = Collapsed(extractor.raw[2]))
               <=> (extractor.document_hash[1] = extractor.document_hash[2])
        /\ \A i \in 1..2 :
               /\ extractor.text[i] = Collapsed(extractor.raw[i])
               /\ extractor.document_hash[i] = Sha256(extractor.text[i])
               /\ Normalize(extractor.text[i]) = extractor.text[i]

\* two uploads that differ in a line break and in surrounding spaces
C26_Witness ==
    /\ extractor.returned
    /\ extractor.raw = << <<"a", "LF", "b">>, <<"a", " ", "b">> >>
    /\ extractor.document_hash[1] = extractor.document_hash[2]
    /\ extractor.text[1] = <<"a", " ", "b">>

\* C27 (as claimed): after enhancement each of platform, businessUsage and
\* modelDescription is a string: the items of a list joined with ", ", the
\* str() of any other value that is not a string, a string as it was.
C27_StringFields ==
    Generated =>
        \A field \in string_fields :
            LET val == generator.parsed.strings[field]
                out == generator.usecase_data.strings[field]
            IN  /\ out.type = "str"
                /\ val = ListValue(<<"Python", "AWS">>) =>
                       out.value = <<"Python", ", ", "AWS">>
                /\ val.type = "other" => out.value = val.value
                /\ val.type = "str" => out = val

\* C28 (as claimed): the record a successful ingestion wrote is stored under
\* the id the allocator returned and the caller was told, and carries the
\* document hash and the category of the pipeline, whatever keys the
\* generator output has.
C28_OwnKeyFields ==
    \A p \in Procs :
        Succeeded(p) =>
            \A t \in Tenants : \A r \in Records(t) :
                r.by = p =>
                    /\ {r.id} = result[p].usecase_id
                    /\ r.documentHash = HashOf(p)
                    /\ r.aiCategory = result[p].ai_category

\* C29 (as claimed): the documentHash of every record an ingestion has put,
\* through either entry, is the SHA-256 of the normalized text extracted from
\* the document of that ingestion.
C29_HashOfExtractedText ==
    \A t \in Tenants : \A r \in Records(t) :
        \A p \in Procs :
            r.by = p => r.documentHash = Sha256(request[p].doc)

\* C30: an ingestion writes in the table of its own tenant only, so every
\* record lies in the table of the tenant it was ingested for; a duplicate is
\* reported only for a record of the own table; and an id scan that finds the
\* own table empty yields 001 whatever the other tables hold.
C30_TenantIsolation ==
    \A p \in Procs :
        /\ \A t \in Tenants : \A r \in Records(t) :
               r.by = p => t = request[p].cloud_id
        /\ (Done(p) /\ result[p].kind = "duplicate") =>
               \E r \in Records(request[p].cloud_id) :
                   /\ {r.id} = result[p].existing_id
                   /\ r.documentHash = Sha256(request[p].doc)
        /\ ( /\ pc[p] = "Persist"
             /\ ~scan[p].fallback
             /\ store[request[p].cloud_id] = <<>> ) =>
               usecase_id[p] = {PrefixId(Format03d(1))}

\* the same document was uploaded for two tenants: neither was a duplicate
\* of the other, and each got the first id of its own table
C30_Witness ==
    \E p, q \in Procs :
        /\ request[p].cloud_id # request[q].cloud_id
        /\ request[p].entry = "api" /\ request[q].entry = "api"
        /\ request[p].doc = request[q].doc
        /\ Succeeded(p) /\ Succeeded(q)
        /\ result[p].usecase_id = {PrefixId(Format03d(1))}
        /\ result[q].usecase_id = {PrefixId(Format03d(1))}
        /\ \A t \in Tenants : Len(store[t]) = 1

====
